---- MODULE Spec2Model ----
(***************************************************************************)
(* Numeric primitives of src/common/dsp/utilities/DSPUtils.h: the          *)
(* quadrature oscillator quadr_osc, the parameter smoothers lipol and lag, *)
(* the interpolation kernel cubic_ipol and the fast tanh approximations.   *)
(*                                                                         *)
(* The C++ types float/double are modelled by exact rationals <<n, d>>     *)
(* (d > 0, lowest terms), so every property below is a statement about the *)
(* code's formulas in exact arithmetic; floating-point rounding is not     *)
(* modelled.  The one non-finite value the code can produce from finite    *)
(* inputs (0 * (1/0) in quadr_osc::set_rate) is modelled by NaN.           *)
(***************************************************************************)
EXTENDS Integers, Sequences, FiniteSets, TLC

(***************************************************************************)
(* Exact rational arithmetic.                                              *)
(***************************************************************************)
Abs(x) == IF x < 0 THEN -x ELSE x

RECURSIVE GCD(_, _)
GCD(a, b) == IF b = 0 THEN a ELSE GCD(b, a % b)

\* The rational n/d (d # 0) in lowest terms with a positive denominator.
Rat(n, d) ==
    LET g == GCD(Abs(n), Abs(d))
        s == IF d < 0 THEN -1 ELSE 1
    IN  <<(s * n) \div g, (s * d) \div g>>

Num(a) == a[1]
Den(a) == a[2]
RInt(n) == <<n, 1>>
RZero == RInt(0)
ROne == RInt(1)

RAdd(a, b) ==
    LET g == GCD(Den(a), Den(b))
        l == (Den(a) \div g) * Den(b)
    IN  Rat(Num(a) * (l \div Den(a)) + Num(b) * (l \div Den(b)), l)
RNeg(a) == <<-Num(a), Den(a)>>
RSub(a, b) == RAdd(a, RNeg(b))
RMul(a, b) ==
    LET g1 == GCD(Abs(Num(a)), Den(b))
        g2 == GCD(Abs(Num(b)), Den(a))
    IN  Rat((Num(a) \div g1) * (Num(b) \div g2), (Den(a) \div g2) * (Den(b) \div g1))
RInv(a) == Rat(Den(a), Num(a))
RDiv(a, b) == RMul(a, RInv(b))
RLe(a, b) == Num(a) * Den(b) <= Num(b) * Den(a)
RLt(a, b) == Num(a) * Den(b) < Num(b) * Den(a)
RAbs(a) == <<Abs(Num(a)), Den(a)>>

RECURSIVE RPow(_, _)
RPow(a, t) == IF t = 0 THEN ROne ELSE RMul(a, RPow(a, t - 1))

\* The value 0 * inf of IEEE arithmetic; it absorbs every operation.
NaN == <<0, 0>>
IsNaN(a) == Den(a) = 0
FAdd(a, b) == IF IsNaN(a) \/ IsNaN(b) THEN NaN ELSE RAdd(a, b)
FSub(a, b) == IF IsNaN(a) \/ IsNaN(b) THEN NaN ELSE RSub(a, b)
FMul(a, b) == IF IsNaN(a) \/ IsNaN(b) THEN NaN ELSE RMul(a, b)

\* Integer square root by Newton's iteration from the guess x.
RECURSIVE ISqrtFrom(_, _)
ISqrtFrom(n, x) ==
    LET y == (x + n \div x) \div 2
    IN  IF y >= x THEN x ELSE ISqrtFrom(n, y)
ISqrt(n) == IF n = 0 THEN 0 ELSE ISqrtFrom(n, n)

\* sqrt of a rational that is the square of a rational
RSqrt(a) == <<ISqrt(Num(a)), ISqrt(Den(a))>>

(***************************************************************************)
(* Bounds of the model.                                                    *)
(***************************************************************************)
\* targets handed to lipol::newValue are the integers -MaxTarget..MaxTarget
MaxTarget == 1
\* block lengths handed to setBlockSize are 2^0 .. 2^MaxBlockLog
MaxBlockLog == 2
\* process() calls explored after one newValue / reset / instantize
MaxProcess == 5

\* targets handed to lag::newValue/startValue are the integers 0..MaxLagTarget
MaxLagTarget == 1
\* lag::process() calls explored in one run
MaxLagSteps == 3
\* lag::process() and quadr_osc::process() are explored while the denominators
\* of their results stay within MaxDen (squares of such numbers fit 32 bits)
MaxDen == 16384

\* angles handed to set_rate/set_phase are w = 2 atan(j/2), |j| <= MaxHalfTan
MaxHalfTan == 2
\* quadr_osc::process() calls explored in one run
MaxOscSteps == 3

\* samples handed to cubic_ipol are the integers -MaxSample..MaxSample
MaxSample == 3
\* fractional positions handed to cubic_ipol are j/MuDen, 0 <= j <= MuDen
MuDen == 4
\* inputs handed to the tanh approximations are j/2, |j| <= MaxTanhIn
MaxTanhIn == 6

\* BLOCK_SIZE is defined in globals.h (32 in the upstream build); the header
\* only uses it, in lipol::reset.
BLOCK_SIZE == 32

Targets == {RInt(k) : k \in -MaxTarget..MaxTarget}
BlockSizes == {2^j : j \in 0..MaxBlockLog}
LagTargets == {RInt(k) : k \in 0..MaxLagTarget}
\* smoothing coefficients handed to lag(lp)/setRate: the two degenerate ones
\* and two strictly between 0 and 1
Rates == {RZero, Rat(1, 4), Rat(1, 2), ROne}
Samples == {RInt(k) : k \in -MaxSample..MaxSample}
MuGrid == {Rat(j, MuDen) : j \in 0..MuDen}
TanhInputs == {Rat(j, 2) : j \in -MaxTanhIn..MaxTanhIn}
\* an angle w is held as the tangent of its half, tan(w/2)
Angles == {Rat(j, 2) : j \in -MaxHalfTan..MaxHalfTan}

VARIABLES
    \* template <class T, bool first_run_checks> class lipol
    lipol_first_run_checks, lipol_v, lipol_new_v, lipol_dv, lipol_bs_inv,
    lipol_first_run,
    \* history of the lipol object, kept for the properties only:
    \*   phase  how v was last set: "reset", "jump" (first-run newValue),
    \*          "ramp" (any other newValue), "instantize"
    \*   k      process() calls since then
    \*   pre_v  v just before the last call of any operation
    \*   prior  new_v just before the last newValue (the prior target)
    \*   bs     block length last configured (setBlockSize's argument)
    \*   n      block length in force at the last newValue
    \*   op     the last operation called
    \*   nv     newValue calls since construction/reset, counted up to 2
    lipol_hist,
    \* template <class T, bool first_run_checks> class lag
    lag_first_run_checks, lag_v, lag_target_v, lag_first_run, lag_lp, lag_lpinv,
    \* history of the lag object, kept for the properties only:
    \*   op     the last operation called
    \*   pre_v  v just before the last call
    \*   v0     v as the last operation other than process() left it
    \*   t      process() calls since that operation
    \*   sets   newValue/startValue calls since construction, counted up to 2
    \*   steps  process() calls since construction
    lag_hist,
    \* class quadr_osc
    osc_r, osc_i, osc_dr, osc_di,
    \* history of the quadr_osc object, kept for the properties only:
    \*   op        the last operation called
    \*   rate_set  set_rate has been called (dr, di are initialized)
    \*   uninit_read  process() has read dr, di before any set_rate
    \*   pre_r, pre_i  (r, i) just before the last call
    \*   steps     process() calls since construction
    osc_hist,
    \* one call of cubic_ipol(y0, y1, y2, y3, mu): arguments, result, position
    cubic_y0, cubic_y1, cubic_y2, cubic_y3, cubic_mu, cubic_out, cubic_pc,
    \* one call of tanh_fn (tanh_fast or tanh_faster1) on each of two inputs
    tanh_fn, tanh_in1, tanh_in2, tanh_out1, tanh_out2, tanh_pc

lipol_vars == <<lipol_first_run_checks, lipol_v, lipol_new_v, lipol_dv,
                lipol_bs_inv, lipol_first_run, lipol_hist>>

lag_vars == <<lag_first_run_checks, lag_v, lag_target_v, lag_first_run,
              lag_lp, lag_lpinv, lag_hist>>

osc_vars == <<osc_r, osc_i, osc_dr, osc_di, osc_hist>>

cubic_vars == <<cubic_y0, cubic_y1, cubic_y2, cubic_y3, cubic_mu, cubic_out,
                cubic_pc>>

tanh_vars == <<tanh_fn, tanh_in1, tanh_in2, tanh_out1, tanh_out2, tanh_pc>>

vars == <<lipol_vars, lag_vars, osc_vars, cubic_vars, tanh_vars>>

\* what the operations of one object leave alone: the other objects
lipol_rest == <<lag_vars, osc_vars, cubic_vars, tanh_vars>>
lag_rest == <<lipol_vars, osc_vars, cubic_vars, tanh_vars>>
osc_rest == <<lipol_vars, lag_vars, cubic_vars, tanh_vars>>
cubic_rest == <<lipol_vars, lag_vars, osc_vars, tanh_vars>>
tanh_rest == <<lipol_vars, lag_vars, osc_vars, cubic_vars>>

(***************************************************************************)
(* lipol: linear-ramp smoother.                                            *)
(***************************************************************************)
\* faulty variant, for mutation analysis: the block length taken one too large
lipol_setBlockSize_val_off(n) == Rat(1, n + 1)

\* void setBlockSize(int n) { bs_inv = 1 / (T)n; }
lipol_setBlockSize_val(n) == Rat(1, n)

lipol_setBlockSize(n) ==
    /\ lipol_bs_inv' = lipol_setBlockSize_val(n)
    /\ lipol_hist' = [lipol_hist EXCEPT !.pre_v = lipol_v, !.bs = n,
                                        !.op = "setBlockSize"]
    /\ UNCHANGED <<lipol_first_run_checks, lipol_v, lipol_new_v, lipol_dv,
                   lipol_first_run>>
    /\ UNCHANGED lipol_rest

\* lipol() { reset(); }   The constructed object: first_run is set only when
\* first_run_checks; without the checks the member is never read, and is
\* held at FALSE here.
lipol_Init ==
    /\ lipol_first_run_checks \in BOOLEAN
    /\ lipol_first_run = lipol_first_run_checks
    /\ lipol_new_v = RZero
    /\ lipol_v = RZero
    /\ lipol_dv = RZero
    /\ lipol_bs_inv = lipol_setBlockSize_val(BLOCK_SIZE)
    /\ lipol_hist = [phase |-> "reset", k |-> 0, pre_v |-> RZero,
                     prior |-> RZero, bs |-> BLOCK_SIZE, n |-> BLOCK_SIZE,
                     nv |-> 0, op |-> "lipol"]

lipol_reset ==
    /\ lipol_first_run' = IF lipol_first_run_checks THEN TRUE ELSE lipol_first_run
    /\ lipol_new_v' = RZero
    /\ lipol_v' = RZero
    /\ lipol_dv' = RZero
    /\ lipol_bs_inv' = lipol_setBlockSize_val(BLOCK_SIZE)
    /\ lipol_hist' = [phase |-> "reset", k |-> 0, pre_v |-> lipol_v,
                      prior |-> RZero, bs |-> BLOCK_SIZE, n |-> BLOCK_SIZE,
                      nv |-> 0, op |-> "reset"]
    /\ UNCHANGED lipol_first_run_checks
    /\ UNCHANGED lipol_rest

\* faulty variant, for mutation analysis: newValue that always jumps, that leaves v alone, that never jumps
lipol_newValue_v_always(f) == f
lipol_newValue_v_keep(f) == lipol_v
lipol_newValue_v_never(f) == lipol_new_v

\* v after newValue(f): first v = new_v, then the first-run jump v = f
lipol_newValue_v(f) ==
    IF lipol_first_run_checks /\ lipol_first_run THEN f ELSE lipol_new_v

lipol_newValue(f) ==
    /\ lipol_v' = lipol_newValue_v(f)
    /\ lipol_new_v' = f
    /\ lipol_first_run' = IF lipol_first_run_checks /\ lipol_first_run
                          THEN FALSE ELSE lipol_first_run
    /\ lipol_dv' = RMul(RSub(lipol_new_v', lipol_v'), lipol_bs_inv)
    /\ lipol_hist' = [phase |-> IF lipol_first_run_checks /\ lipol_first_run
                                THEN "jump" ELSE "ramp",
                      k |-> 0,
                      pre_v |-> lipol_v,
                      prior |-> lipol_new_v,
                      bs |-> lipol_hist.bs,
                      n |-> lipol_hist.bs,
                      nv |-> IF lipol_hist.nv < 2 THEN lipol_hist.nv + 1 ELSE 2,
                      op |-> "newValue"]
    /\ UNCHANGED <<lipol_first_run_checks, lipol_bs_inv>>
    /\ UNCHANGED lipol_rest

lipol_instantize ==
    /\ lipol_v' = lipol_new_v
    /\ lipol_dv' = RZero
    /\ lipol_hist' = [lipol_hist EXCEPT !.phase = "instantize", !.k = 0,
                                        !.pre_v = lipol_v, !.op = "instantize"]
    /\ UNCHANGED <<lipol_first_run_checks, lipol_new_v, lipol_bs_inv,
                   lipol_first_run>>
    /\ UNCHANGED lipol_rest

\* faulty variant, for mutation analysis: the increment applied with the wrong sign
lipol_process_v_sub == RSub(lipol_v, lipol_dv)

\* inline void process() { v += dv; }
lipol_process_v == RAdd(lipol_v, lipol_dv)

lipol_process ==
    /\ lipol_hist.k < MaxProcess
    /\ lipol_v' = lipol_process_v
    /\ lipol_hist' = [lipol_hist EXCEPT !.k = @ + 1, !.pre_v = lipol_v,
                                        !.op = "process"]
    /\ UNCHANGED <<lipol_first_run_checks, lipol_new_v, lipol_dv, lipol_bs_inv,
                   lipol_first_run>>
    /\ UNCHANGED lipol_rest

lipol_Next ==
    \/ lipol_reset
    \/ \E f \in Targets : lipol_newValue(f)
    \/ lipol_instantize
    \/ lipol_process
    \/ \E n \in BlockSizes : lipol_setBlockSize(n)

(***************************************************************************)
(* lag: exponential-lag (one-pole) smoother.                               *)
(***************************************************************************)
\* lag() { lp = 0.004; ... }
lag_default_lp == Rat(4, 1000)

\* lpinv = 1 - lp;
lag_lpinv_val(lp) == RSub(ROne, lp)

\* lag(T lp) and lag(): the constructed object.  first_run is set only when
\* first_run_checks; without the checks the member is never read, and is
\* held at FALSE here.
lag_Init ==
    /\ lag_first_run_checks \in BOOLEAN
    /\ lag_lp \in Rates \cup {lag_default_lp}
    /\ lag_lpinv = lag_lpinv_val(lag_lp)
    /\ lag_v = RZero
    /\ lag_target_v = RZero
    /\ lag_first_run = lag_first_run_checks
    /\ lag_hist = [op |-> "lag", pre_v |-> RZero, v0 |-> RZero, t |-> 0,
                   sets |-> 0, steps |-> 0]

lag_setRate(lp) ==
    /\ lag_lp' = lp
    /\ lag_lpinv' = lag_lpinv_val(lp)
    /\ lag_hist' = [lag_hist EXCEPT !.op = "setRate", !.pre_v = lag_v,
                                    !.v0 = lag_v, !.t = 0]
    /\ UNCHANGED <<lag_first_run_checks, lag_v, lag_target_v, lag_first_run>>
    /\ UNCHANGED lag_rest

\* faulty variant, for mutation analysis: newValue that always jumps
lag_newValue_v_always(f) == f

\* v after newValue(f): untouched, but for the first-run jump v = target_v
lag_newValue_v(f) ==
    IF lag_first_run_checks /\ lag_first_run THEN f ELSE lag_v

lag_newValue(f) ==
    /\ lag_target_v' = f
    /\ lag_v' = lag_newValue_v(f)
    /\ lag_first_run' = IF lag_first_run_checks /\ lag_first_run
                        THEN FALSE ELSE lag_first_run
    /\ lag_hist' = [lag_hist EXCEPT !.op = "newValue", !.pre_v = lag_v,
                                    !.v0 = lag_v', !.t = 0,
                                    !.sets = IF @ < 2 THEN @ + 1 ELSE 2]
    /\ UNCHANGED <<lag_first_run_checks, lag_lp, lag_lpinv>>
    /\ UNCHANGED lag_rest

lag_startValue(f) ==
    /\ lag_target_v' = f
    /\ lag_v' = f
    /\ lag_first_run' = IF lag_first_run_checks /\ lag_first_run
                        THEN FALSE ELSE lag_first_run
    /\ lag_hist' = [lag_hist EXCEPT !.op = "startValue", !.pre_v = lag_v,
                                    !.v0 = f, !.t = 0,
                                    !.sets = IF @ < 2 THEN @ + 1 ELSE 2]
    /\ UNCHANGED <<lag_first_run_checks, lag_lp, lag_lpinv>>
    /\ UNCHANGED lag_rest

lag_instantize ==
    /\ lag_v' = lag_target_v
    /\ lag_hist' = [lag_hist EXCEPT !.op = "instantize", !.pre_v = lag_v,
                                    !.v0 = lag_target_v, !.t = 0]
    /\ UNCHANGED <<lag_first_run_checks, lag_target_v, lag_first_run, lag_lp,
                   lag_lpinv>>
    /\ UNCHANGED lag_rest

\* faulty variant, for mutation analysis: the two weights exchanged
lag_process_v_swapped == RAdd(RMul(lag_v, lag_lp), RMul(lag_target_v, lag_lpinv))

\* inline void process() { v = v * lpinv + target_v * lp; }
lag_process_v == RAdd(RMul(lag_v, lag_lpinv), RMul(lag_target_v, lag_lp))

lag_process ==
    /\ lag_hist.steps < MaxLagSteps
    /\ Den(lag_v) * Den(lag_lp) <= MaxDen
    /\ lag_v' = lag_process_v
    /\ lag_hist' = [lag_hist EXCEPT !.op = "process", !.pre_v = lag_v,
                                    !.t = @ + 1, !.steps = @ + 1]
    /\ UNCHANGED <<lag_first_run_checks, lag_target_v, lag_first_run, lag_lp,
                   lag_lpinv>>
    /\ UNCHANGED lag_rest

lag_Next ==
    \/ \E lp \in Rates : lag_setRate(lp)
    \/ \E f \in LagTargets : lag_newValue(f)
    \/ \E f \in LagTargets : lag_startValue(f)
    \/ lag_instantize
    \/ lag_process

(***************************************************************************)
(* quadr_osc: quadrature oscillator.                                       *)
(***************************************************************************)
\* cos(w) and sin(w) of the angle with tan(w/2) = t, exactly
Cos(t) == RDiv(RSub(ROne, RMul(t, t)), RAdd(ROne, RMul(t, t)))
Sin(t) == RDiv(RMul(RInt(2), t), RAdd(ROne, RMul(t, t)))

\* what the uninitialized members dr, di may hold when process() reads them
\* before any set_rate: pairs of arbitrary floats
Indeterminate ==
    {<<RZero, RZero>>, <<RInt(3), RInt(4)>>, <<Rat(1, 2), RZero>>, <<NaN, NaN>>}

\* quadr_osc() { r = 0; i = -1; }   dr, di are left uninitialized
osc_Init ==
    /\ osc_r = RZero
    /\ osc_i = RInt(-1)
    /\ \E g \in Indeterminate : osc_dr = g[1] /\ osc_di = g[2]
    /\ osc_hist = [op |-> "quadr_osc", rate_set |-> FALSE, uninit_read |-> FALSE,
                   pre_r |-> RZero, pre_i |-> RInt(-1), steps |-> 0]

\* double n = 1 / sqrt(r * r + i * i); x *= n;   for x one of r, i.
\* A zero vector gives n = inf and 0 * inf = NaN.
osc_normalize(x, r, i) ==
    LET m2 == FAdd(FMul(r, r), FMul(i, i))
    IN  IF IsNaN(m2) \/ m2 = RZero THEN NaN
        ELSE RMul(x, RInv(RSqrt(m2)))

osc_set_rate(w) ==
    /\ osc_dr' = Cos(w)
    /\ osc_di' = Sin(w)
    /\ osc_r' = osc_normalize(osc_r, osc_r, osc_i)
    /\ osc_i' = osc_normalize(osc_i, osc_r, osc_i)
    /\ osc_hist' = [osc_hist EXCEPT !.op = "set_rate", !.rate_set = TRUE,
                                    !.pre_r = osc_r, !.pre_i = osc_i]
    /\ UNCHANGED osc_rest

osc_set_phase(w) ==
    /\ osc_r' = Sin(w)
    /\ osc_i' = RNeg(Cos(w))
    /\ osc_hist' = [osc_hist EXCEPT !.op = "set_phase",
                                    !.pre_r = osc_r, !.pre_i = osc_i]
    /\ UNCHANGED <<osc_dr, osc_di>>
    /\ UNCHANGED osc_rest

\* float lr = r, li = i; r = dr * lr - di * li;
osc_process_r == FSub(FMul(osc_dr, osc_r), FMul(osc_di, osc_i))

\* faulty variant, for mutation analysis: i computed from the r already updated (no copy lr kept)
osc_process_i_inplace == FAdd(FMul(osc_dr, osc_i), FMul(osc_di, osc_process_r))

\* i = dr * li + di * lr;
osc_process_i == FAdd(FMul(osc_dr, osc_i), FMul(osc_di, osc_r))

osc_process ==
    /\ osc_hist.steps < MaxOscSteps
    /\ Den(osc_r) * Den(osc_dr) <= MaxDen
    /\ Den(osc_i) * Den(osc_dr) <= MaxDen
    /\ osc_r' = osc_process_r
    /\ osc_i' = osc_process_i
    /\ osc_hist' = [osc_hist EXCEPT !.op = "process", !.steps = @ + 1,
                                    !.uninit_read = @ \/ ~osc_hist.rate_set,
                                    !.pre_r = osc_r, !.pre_i = osc_i]
    /\ UNCHANGED <<osc_dr, osc_di>>
    /\ UNCHANGED osc_rest

osc_Next ==
    \/ \E w \in Angles : osc_set_rate(w)
    \/ \E w \in Angles : osc_set_phase(w)
    \/ osc_process

(***************************************************************************)
(* cubic_ipol: 4-point cubic interpolation kernel.                         *)
(***************************************************************************)
\* faulty variant, for mutation analysis: a1 without the - a0 term
cubic_a1_short(y0, y1, y2, y3) == RSub(y0, y1)

\* a0 = y3 - y2 - y0 + y1;
cubic_a0(y0, y1, y2, y3) == RAdd(RSub(RSub(y3, y2), y0), y1)
\* a1 = y0 - y1 - a0;
cubic_a1(y0, y1, y2, y3) == RSub(RSub(y0, y1), cubic_a0(y0, y1, y2, y3))
\* a2 = y2 - y0;
cubic_a2(y0, y1, y2, y3) == RSub(y2, y0)
\* a3 = y1;
cubic_a3(y0, y1, y2, y3) == y1

\* mu2 = mu * mu; return (a0 * mu * mu2 + a1 * mu2 + a2 * mu + a3);
cubic_ipol(y0, y1, y2, y3, mu) ==
    LET mu2 == RMul(mu, mu)
    IN  RAdd(RAdd(RAdd(RMul(RMul(cubic_a0(y0, y1, y2, y3), mu), mu2),
                       RMul(cubic_a1(y0, y1, y2, y3), mu2)),
                  RMul(cubic_a2(y0, y1, y2, y3), mu)),
             cubic_a3(y0, y1, y2, y3))

\* the caller's arguments
cubic_Init ==
    /\ cubic_y0 \in Samples
    /\ cubic_y1 \in Samples
    /\ cubic_y2 \in Samples
    /\ cubic_y3 \in Samples
    /\ cubic_mu \in MuGrid
    /\ cubic_out = RZero
    /\ cubic_pc = "call"

cubic_call ==
    /\ cubic_pc = "call"
    /\ cubic_out' = cubic_ipol(cubic_y0, cubic_y1, cubic_y2, cubic_y3, cubic_mu)
    /\ cubic_pc' = "done"
    /\ UNCHANGED <<cubic_y0, cubic_y1, cubic_y2, cubic_y3, cubic_mu>>
    /\ UNCHANGED cubic_rest

cubic_Next ==
    \/ cubic_call

(***************************************************************************)
(* tanh_fast(double) and tanh_faster1(double).                             *)
(***************************************************************************)
\* the quotient a / b of two ints in C++: truncated toward zero
CDiv(a, b) ==
    IF (a >= 0) = (b >= 0) THEN Abs(a) \div Abs(b) ELSE -(Abs(a) \div Abs(b))

\* const double a = 2 / 3;
tanh_fast_a == RInt(CDiv(2, 3))

\* ((in > 0) ? 1 : -1)
tanh_fast_sign(in) == IF RLt(RZero, in) THEN ROne ELSE RInt(-1)

tanh_fast(in) ==
    LET x == RAbs(in)
        xx == RMul(x, x)
        denom == RAdd(RAdd(RAdd(ROne, x), xx), RMul(RMul(tanh_fast_a, x), xx))
    IN  RMul(tanh_fast_sign(in), RSub(ROne, RInv(denom)))

\* faulty variant, for mutation analysis: the quotient -1/3 taken exactly
tanh_faster1_a_exact == Rat(-1, 3)

\* const double a = -1 / 3, b = 2 / 15;
tanh_faster1_a == RInt(CDiv(-1, 3))
tanh_faster1_b == RInt(CDiv(2, 15))

tanh_faster1(x) ==
    LET xs == RMul(x, x)
        y == RAdd(RAdd(ROne, RMul(xs, tanh_faster1_a)),
                  RMul(RMul(xs, xs), tanh_faster1_b))
    IN  RMul(y, x)

\* the caller's choice of function and of two inputs
tanh_Init ==
    /\ tanh_fn \in {"tanh_fast", "tanh_faster1"}
    /\ tanh_in1 \in TanhInputs
    /\ tanh_in2 \in TanhInputs
    /\ tanh_out1 = RZero
    /\ tanh_out2 = RZero
    /\ tanh_pc = "call"

tanh_fast_call ==
    /\ tanh_pc = "call"
    /\ tanh_fn = "tanh_fast"
    /\ tanh_out1' = tanh_fast(tanh_in1)
    /\ tanh_out2' = tanh_fast(tanh_in2)
    /\ tanh_pc' = "done"
    /\ UNCHANGED <<tanh_fn, tanh_in1, tanh_in2>>
    /\ UNCHANGED tanh_rest

tanh_faster1_call ==
    /\ tanh_pc = "call"
    /\ tanh_fn = "tanh_faster1"
    /\ tanh_out1' = tanh_faster1(tanh_in1)
    /\ tanh_out2' = tanh_faster1(tanh_in2)
    /\ tanh_pc' = "done"
    /\ UNCHANGED <<tanh_fn, tanh_in1, tanh_in2>>
    /\ UNCHANGED tanh_rest

tanh_Next ==
    \/ tanh_fast_call
    \/ tanh_faster1_call

(***************************************************************************)
(* Specifications: one per primitive.  The primitives share no state, so   *)
(* each is explored on its own, the others held in one constructed state.  *)
(***************************************************************************)
lipol_Idle == lipol_Init /\ lipol_first_run_checks
lag_Idle == lag_Init /\ lag_first_run_checks /\ lag_lp = lag_default_lp
osc_Idle == osc_Init /\ osc_dr = RZero /\ osc_di = RZero
cubic_Idle ==
    /\ cubic_Init
    /\ cubic_y0 = RZero /\ cubic_y1 = RZero /\ cubic_y2 = RZero
    /\ cubic_y3 = RZero /\ cubic_mu = RZero
tanh_Idle ==
    /\ tanh_Init
    /\ tanh_fn = "tanh_fast" /\ tanh_in1 = RZero /\ tanh_in2 = RZero

InitLipol == lipol_Init /\ lag_Idle /\ osc_Idle /\ cubic_Idle /\ tanh_Idle
SpecLipol == InitLipol /\ [][lipol_Next]_vars

InitLag == lipol_Idle /\ lag_Init /\ osc_Idle /\ cubic_Idle /\ tanh_Idle
SpecLag == InitLag /\ [][lag_Next]_vars

InitOsc == lipol_Idle /\ lag_Idle /\ osc_Init /\ cubic_Idle /\ tanh_Idle
SpecOsc == InitOsc /\ [][osc_Next]_vars

InitCubic == lipol_Idle /\ lag_Idle /\ osc_Idle /\ cubic_Init /\ tanh_Idle
SpecCubic == InitCubic /\ [][cubic_Next]_vars

InitTanh == lipol_Idle /\ lag_Idle /\ osc_Idle /\ cubic_Idle /\ tanh_Init
SpecTanh == InitTanh /\ [][tanh_Next]_vars

(***************************************************************************)
(* Properties of lipol (checked under SpecLipol).                          *)
(***************************************************************************)
\* the point at position k/n on the line from a to b
LinearAt(a, b, k, n) == RAdd(a, RMul(Rat(k, n), RSub(b, a)))

\* C1: after newValue(T) (the first-update jump aside) with block length n,
\* k < n process() calls leave v at the linear interpolation at k/n between
\* the prior target and T, and exactly n calls leave v = T.
C1_LinearRamp ==
    lipol_hist.phase = "ramp" =>
        /\ lipol_hist.k < lipol_hist.n =>
               lipol_v = LinearAt(lipol_hist.prior, lipol_new_v,
                                  lipol_hist.k, lipol_hist.n)
        /\ lipol_hist.k = lipol_hist.n => lipol_v = lipol_new_v

C1_Witness ==
    /\ lipol_hist.phase = "ramp"
    /\ lipol_hist.op = "process"
    /\ lipol_hist.n = 4
    /\ lipol_hist.k = 4
    /\ lipol_new_v # lipol_hist.prior
    /\ lipol_v = lipol_new_v

\* C2 as stated: after newValue(T) with block length n, v = T after every
\* number m >= n of process() calls.
C2_StaysAtTarget ==
    (lipol_hist.phase = "ramp" /\ lipol_hist.k >= lipol_hist.n) =>
        lipol_v = lipol_new_v

\* C2 amended: v = T after exactly n process() calls and the distance to T
\* shrinks strictly with every call before that; every call after the n-th
\* adds dv again, so after m > n calls v = T + (m - n) * dv, which is not T
\* when T differs from the prior target.
C2_ReachesThenOvershoots ==
    lipol_hist.phase = "ramp" =>
        /\ lipol_hist.k = lipol_hist.n => lipol_v = lipol_new_v
        /\ (lipol_hist.k <= lipol_hist.n /\ lipol_hist.op = "process"
            /\ lipol_new_v # lipol_hist.prior) =>
               RLt(RAbs(RSub(lipol_new_v, lipol_v)),
                   RAbs(RSub(lipol_new_v, lipol_hist.pre_v)))
        /\ lipol_hist.k > lipol_hist.n =>
               /\ lipol_v = RAdd(lipol_new_v,
                                 RMul(RInt(lipol_hist.k - lipol_hist.n), lipol_dv))
               /\ lipol_new_v # lipol_hist.prior => lipol_v # lipol_new_v

C2_Witness ==
    /\ lipol_hist.phase = "ramp"
    /\ lipol_hist.op = "process"
    /\ lipol_hist.n = 2
    /\ lipol_hist.k = 3
    /\ lipol_v # lipol_new_v

\* the state of the scenario after k advance() calls: the first newValue of
\* a constructed (or reset) lipol was newValue(1.0), under block length 4
C3_Scenario(k) ==
    /\ lipol_hist.phase \in {"ramp", "jump"}
    /\ lipol_hist.nv = 1
    /\ lipol_hist.n = 4
    /\ lipol_new_v = ROne
    /\ lipol_hist.k = k

\* C3 as stated: a freshly constructed lipol with block length 4, given
\* newValue(1.0) and four process() calls, shows 0.25, 0.5, 0.75, 1.0.
C3_FreshRamp ==
    \A k \in 1..4 : C3_Scenario(k) => lipol_v = Rat(k, 4)

\* C3 amended: the values are 0.25, 0.5, 0.75, 1.0 when first_run_checks is
\* disabled; with first_run_checks (the default) they are 1.0 four times.
C3_FreshRampNoFirstRun ==
    \A k \in 1..4 : C3_Scenario(k) =>
        lipol_v = IF lipol_first_run_checks THEN ROne ELSE Rat(k, 4)

C3_Witness ==
    /\ ~lipol_first_run_checks
    /\ C3_Scenario(3)
    /\ lipol_v = Rat(3, 4)

\* C4 as stated: newValue(f) does not change v (stated here for the calls
\* that ramp, the first-run jump left aside).
C4_NewValueKeepsCurrent ==
    (lipol_hist.op = "newValue" /\ lipol_hist.phase = "ramp") =>
        lipol_v = lipol_hist.pre_v

\* C4 amended: newValue(f) sets v to the target recorded before the call (to
\* f on the first-run jump), records f as the target and sets
\* dv = (new_v - v) / blockLength from that v; v is unchanged only when it
\* already was at the prior target.
C4_NewValueSnapsToPrior ==
    lipol_hist.op = "newValue" =>
        /\ lipol_v = IF lipol_hist.phase = "jump" THEN lipol_new_v
                     ELSE lipol_hist.prior
        /\ lipol_dv = RDiv(RSub(lipol_new_v, lipol_v), RInt(lipol_hist.n))
        /\ (lipol_hist.phase = "ramp" /\ lipol_hist.pre_v # lipol_hist.prior)
               => lipol_v # lipol_hist.pre_v

C4_Witness ==
    /\ lipol_hist.op = "newValue"
    /\ lipol_hist.phase = "ramp"
    /\ lipol_hist.nv = 2
    /\ lipol_hist.pre_v # lipol_hist.prior
    /\ lipol_hist.pre_v # lipol_new_v
    /\ lipol_v = lipol_hist.prior

\* C5: with first_run_checks the first newValue(f) after construction or
\* reset() leaves v = new_v = f and dv = 0 (so process() does not move v);
\* the jump is taken on that call only, and every other newValue whose
\* target differs from the previous one sets a non-zero dv.
C5_FirstRunJump ==
    /\ lipol_hist.phase = "jump" =>
           /\ lipol_first_run_checks
           /\ lipol_hist.nv = 1
           /\ lipol_v = lipol_new_v
           /\ lipol_dv = RZero
    /\ (lipol_first_run_checks /\ lipol_hist.nv = 1
        /\ lipol_hist.phase # "instantize") => lipol_hist.phase = "jump"
    /\ (lipol_hist.phase = "ramp" /\ lipol_hist.op = "newValue"
        /\ lipol_new_v # lipol_hist.prior) => lipol_dv # RZero
    /\ lipol_first_run = (lipol_first_run_checks /\ lipol_hist.nv = 0)

C5_Witness ==
    /\ lipol_hist.phase = "jump"
    /\ lipol_hist.op = "process"
    /\ lipol_hist.k = 2
    /\ lipol_new_v = ROne
    /\ lipol_v = ROne

(***************************************************************************)
(* Properties of lag (checked under SpecLag).                              *)
(***************************************************************************)
\* C6: for a coefficient strictly between 0 and 1 and an unchanged target T,
\* each process() computes v' = v*(1-k) + T*k; after t calls
\* |v_t - T| = |v_0 - T| * (1-k)^t; v moves strictly toward T, staying on its
\* side of T, and never equals T when v_0 # T.
C6_ExponentialLag ==
    (RLt(RZero, lag_lp) /\ RLt(lag_lp, ROne)) =>
        /\ lag_hist.v0 = lag_target_v => lag_v = lag_target_v
        /\ lag_hist.v0 # lag_target_v =>
               /\ RAbs(RSub(lag_v, lag_target_v)) =
                      RMul(RAbs(RSub(lag_hist.v0, lag_target_v)),
                           RPow(RSub(ROne, lag_lp), lag_hist.t))
               /\ lag_v # lag_target_v
        /\ lag_hist.op = "process" =>
               /\ lag_v = RAdd(RMul(lag_hist.pre_v, RSub(ROne, lag_lp)),
                               RMul(lag_target_v, lag_lp))
               /\ lag_hist.pre_v # lag_target_v =>
                      /\ RLt(RAbs(RSub(lag_v, lag_target_v)),
                             RAbs(RSub(lag_hist.pre_v, lag_target_v)))
                      /\ RLt(lag_v, lag_target_v) = RLt(lag_hist.pre_v, lag_target_v)

C6_Witness ==
    /\ lag_lp = Rat(1, 4)
    /\ lag_hist.op = "process"
    /\ lag_hist.t = 3
    /\ lag_hist.v0 = RZero
    /\ lag_target_v = ROne
    /\ lag_v = Rat(37, 64)

\* C7 as stated: every lag::newValue(f) leaves v as it was before the call.
C7_NewValueKeepsCurrent ==
    lag_hist.op = "newValue" => lag_v = lag_hist.pre_v

\* C7 amended: newValue(f) stores the target and leaves v as it was, except
\* when first_run_checks is enabled and the call is the first newValue or
\* startValue since construction: that call sets v = f.
C7_NewValueKeepsCurrentAfterFirst ==
    lag_hist.op = "newValue" =>
        lag_v = IF lag_first_run_checks /\ lag_hist.sets = 1
                THEN lag_target_v ELSE lag_hist.pre_v

C7_Witness ==
    /\ lag_hist.op = "newValue"
    /\ lag_first_run_checks
    /\ lag_hist.sets = 2
    /\ lag_hist.steps >= 1
    /\ lag_v = lag_hist.pre_v
    /\ lag_v # lag_target_v

(***************************************************************************)
(* Properties of quadr_osc (checked under SpecOsc).                        *)
(***************************************************************************)
osc_Finite == ~IsNaN(osc_r) /\ ~IsNaN(osc_i)
osc_Unit == osc_Finite /\ RAdd(RMul(osc_r, osc_r), RMul(osc_i, osc_i)) = ROne

\* C8: r^2 + i^2 = 1 in the constructed state and in every state reached
\* once set_rate has been called (set_rate rescales any stored non-zero (r, i)
\* to unit magnitude; the zero vector, which only a process() reading the
\* uninitialized dr, di can store, becomes NaN), and process() rotates (r, i)
\* by (dr, di) using the old values of both components.
C8_UnitCircle ==
    /\ osc_hist.op = "quadr_osc" => osc_Unit
    /\ (osc_hist.rate_set /\ ~osc_hist.uninit_read) => osc_Unit
    /\ (osc_hist.rate_set /\ osc_Finite) => osc_Unit
    /\ osc_hist.op = "process" =>
           /\ osc_r = FSub(FMul(osc_dr, osc_hist.pre_r), FMul(osc_di, osc_hist.pre_i))
           /\ osc_i = FAdd(FMul(osc_dr, osc_hist.pre_i), FMul(osc_di, osc_hist.pre_r))

C8_Witness ==
    /\ osc_hist.rate_set
    /\ osc_hist.uninit_read
    /\ osc_hist.op = "process"
    /\ osc_hist.steps = 3
    /\ osc_dr = Rat(3, 5)
    /\ osc_Unit
    /\ Den(osc_r) > 5

(***************************************************************************)
(* Properties of cubic_ipol (checked under SpecCubic).                     *)
(***************************************************************************)
\* the coefficients of the polynomial p of degree <= 3 with p(-1) = y0,
\* p(0) = y1, p(1) = y2, p(2) = y3
PolyC3(y0, y1, y2, y3) ==
    RDiv(RSub(RAdd(RSub(y3, RMul(RInt(3), y2)), RMul(RInt(3), y1)), y0), RInt(6))
PolyC2(y0, y1, y2, y3) == RDiv(RAdd(RSub(y0, RMul(RInt(2), y1)), y2), RInt(2))
PolyC1(y0, y1, y2, y3) ==
    RSub(RSub(RSub(y2, y1), PolyC2(y0, y1, y2, y3)), PolyC3(y0, y1, y2, y3))
PolyC0(y0, y1, y2, y3) == y1

\* p(x)
SampledCubic(y0, y1, y2, y3, x) ==
    RAdd(RAdd(RAdd(RMul(PolyC3(y0, y1, y2, y3), RMul(x, RMul(x, x))),
                   RMul(PolyC2(y0, y1, y2, y3), RMul(x, x))),
              RMul(PolyC1(y0, y1, y2, y3), x)),
         PolyC0(y0, y1, y2, y3))

\* p = c0 + c3 * (x^3 - 3/2 x^2 - 2 x): the constants and one more direction
ReproducedCubic(y0, y1, y2, y3) ==
    /\ PolyC1(y0, y1, y2, y3) = RMul(RInt(-2), PolyC3(y0, y1, y2, y3))
    /\ RMul(RInt(2), PolyC2(y0, y1, y2, y3)) =
           RMul(RInt(-3), PolyC3(y0, y1, y2, y3))

\* C9 as stated: cubic_ipol(p(-1), p(0), p(1), p(2), mu) = p(mu) for every
\* polynomial p of degree <= 3 and every mu in [0, 1].
C9_ReproducesCubic ==
    cubic_pc = "done" =>
        cubic_out = SampledCubic(cubic_y0, cubic_y1, cubic_y2, cubic_y3, cubic_mu)

\* C9 amended: cubic_ipol returns y1 at mu = 0 and y2 at mu = 1 for any
\* samples; it equals p(mu) at every mu exactly for the polynomials
\* p = c0 + c3 * (x^3 - 3/2 x^2 - 2 x) (the constants among them), and for
\* every other p it differs from p somewhere inside (0, 1).
C9_EndpointsAndConstants ==
    cubic_pc = "done" =>
        /\ cubic_mu = RZero => cubic_out = cubic_y1
        /\ cubic_mu = ROne => cubic_out = cubic_y2
        /\ ReproducedCubic(cubic_y0, cubic_y1, cubic_y2, cubic_y3) =>
               cubic_out = SampledCubic(cubic_y0, cubic_y1, cubic_y2, cubic_y3,
                                        cubic_mu)
        /\ ~ReproducedCubic(cubic_y0, cubic_y1, cubic_y2, cubic_y3) =>
               \E m \in MuGrid \ {RZero, ROne} :
                   cubic_ipol(cubic_y0, cubic_y1, cubic_y2, cubic_y3, m) #
                       SampledCubic(cubic_y0, cubic_y1, cubic_y2, cubic_y3, m)

C9_Witness ==
    /\ cubic_pc = "done"
    /\ cubic_y0 = RInt(1) /\ cubic_y1 = RInt(2)
    /\ cubic_y2 = RInt(-3) /\ cubic_y3 = RInt(-2)
    /\ cubic_mu = Rat(1, 4)
    /\ ReproducedCubic(cubic_y0, cubic_y1, cubic_y2, cubic_y3)
    /\ cubic_out = SampledCubic(cubic_y0, cubic_y1, cubic_y2, cubic_y3, cubic_mu)

(***************************************************************************)
(* Properties of tanh_fast and tanh_faster1 (checked under SpecTanh).      *)
(***************************************************************************)
\* out2 is out1 mirrored when the inputs are, and the outputs are ordered as
\* the inputs are
tanh_OddMonotone ==
    /\ tanh_in2 = RNeg(tanh_in1) => tanh_out2 = RNeg(tanh_out1)
    /\ RLe(tanh_in1, tanh_in2) => RLe(tanh_out1, tanh_out2)

tanh_Within1(x) == RLe(RInt(-1), x) /\ RLe(x, ROne)

\* C10 as stated: both functions, with the constants as the code computes
\* them, are odd, monotonically non-decreasing and stay within [-1, 1].
C10_BoundedSShape ==
    tanh_pc = "done" =>
        /\ tanh_OddMonotone
        /\ tanh_Within1(tanh_out1)
        /\ tanh_Within1(tanh_out2)

\* C10 amended: tanh_fast (a = 2/3 computed as 0) is odd, monotonically
\* non-decreasing and strictly within (-1, 1); tanh_faster1 (a = -1/3 and
\* b = 2/15 computed as 0) returns its input: odd and monotonic, but within
\* [-1, 1] only for inputs within [-1, 1].
C10_FastBoundedFasterIdentity ==
    tanh_pc = "done" =>
        /\ tanh_OddMonotone
        /\ tanh_fn = "tanh_fast" =>
               /\ RLt(RInt(-1), tanh_out1) /\ RLt(tanh_out1, ROne)
               /\ tanh_out1 = RMul(tanh_fast_sign(tanh_in1),
                                   RSub(ROne, RInv(RAdd(RAdd(ROne, RAbs(tanh_in1)),
                                                        RMul(tanh_in1, tanh_in1)))))
        /\ tanh_fn = "tanh_faster1" =>
               /\ tanh_out1 = tanh_in1
               /\ tanh_Within1(tanh_out1) = tanh_Within1(tanh_in1)

C10_Witness ==
    /\ tanh_pc = "done"
    /\ tanh_fn = "tanh_faster1"
    /\ tanh_in1 = RInt(2)
    /\ tanh_out1 = RInt(2)
    /\ tanh_in2 = RInt(-2)
    /\ tanh_out2 = RInt(-2)

====
